---- MODULE Spec2Model ----
(***************************************************************************)
(* Job tracking of the cinegen backend: the in-memory job table `jobs`     *)
(* and the three handlers that read and write it (POST /api/generate,      *)
(* POST /api/n8n-callback/:jobId, GET /api/status/:jobId), together with   *)
(* the detached axios.post promise whose rejection handler writes the      *)
(* table.  The repository holds two server files, src/index.js (one        *)
(* router webhook, error callbacks) and src/unnamed/part_000 (one webhook  *)
(* per workflow); `server` says which of the two is the running process.   *)
(*                                                                         *)
(* Node runs each handler and each promise reaction to completion on one   *)
(* thread, so every handler is one action.                                 *)
(*                                                                         *)
(* lastWrite is a history variable: for each job id, the record that the   *)
(* most recently processed callback or dispatch failure asked to store     *)
(* since the id was last registered.                                       *)
(***************************************************************************)
EXTENDS Integers, Sequences, FiniteSets, TLC

VARIABLES server, env, jobs, replies, dispatch, received, lastWrite

vars == <<server, env, jobs, replies, dispatch, received, lastWrite>>

-----------------------------------------------------------------------------
(* Bounds *)

\* How many distinct values crypto.randomUUID() can return in one behaviour.
MaxJobIds == 2

\* UUIDs[n] names the value the n-th call of crypto.randomUUID() returns.
UUIDs == <<"uuid-1", "uuid-2", "uuid-3", "uuid-4">>

JobIds == {UUIDs[i] : i \in 1..MaxJobIds}

-----------------------------------------------------------------------------
(* JavaScript values.  A string is the sequence of its lexical chunks, an  *)
(* array the sequence of its elements.                                     *)

Undefined == [t |-> "undefined", v |-> <<>>]

Str(chunks) == [t |-> "string", v |-> chunks]

Arr(elems) == [t |-> "array", v |-> elems]

Num(chunk) == [t |-> "number", v |-> <<chunk>>]

\* Object.prototype.constructor, what obj['constructor'] yields on an object
\* literal that has no such own key.
ObjectFunction == [t |-> "function", v |-> <<"Object">>]

\* ToBoolean on the values above: undefined and '' are falsy.
Truthy(x) == ~(x.t = "undefined" \/ (x.t = "string" /\ Len(x.v) = 0))

\* Keys every object literal inherits from Object.prototype.
ObjectPrototypeKeys == {"constructor"}

-----------------------------------------------------------------------------
(* JSON.parse, over strings made of the chunks  [ ] , space, quoted        *)
(* strings, numbers and bare words.                                        *)

Quoted == {"\"a\"", "\"b\""}

Unquote(c) == IF c = "\"a\"" THEN "a" ELSE "b"

Digits == {"5"}

ParseFail == [ok |-> FALSE, val |-> Undefined, next |-> 0]

RECURSIVE SkipWs(_, _)
SkipWs(toks, i) ==
  IF i <= Len(toks) /\ toks[i] = " " THEN SkipWs(toks, i + 1) ELSE i

\* mode: "first" (a value or ']'), "value" (a value), "sep" (',' or ']').
RECURSIVE ParseElems(_, _, _, _)
ParseElems(toks, i, acc, mode) ==
  LET j == SkipWs(toks, i) IN
  IF j > Len(toks) THEN ParseFail
  ELSE IF toks[j] = "]" THEN
    IF mode = "value" THEN ParseFail
    ELSE [ok |-> TRUE, val |-> Arr(acc), next |-> j + 1]
  ELSE IF mode = "sep" THEN
    IF toks[j] = "," THEN ParseElems(toks, j + 1, acc, "value") ELSE ParseFail
  ELSE IF toks[j] \in Quoted THEN
    ParseElems(toks, j + 1, Append(acc, Str(<<Unquote(toks[j])>>)), "sep")
  ELSE IF toks[j] \in Digits THEN
    ParseElems(toks, j + 1, Append(acc, Num(toks[j])), "sep")
  ELSE ParseFail

ParseValue(toks, i) ==
  LET j == SkipWs(toks, i) IN
  IF j > Len(toks) THEN ParseFail
  ELSE IF toks[j] \in Quoted THEN
    [ok |-> TRUE, val |-> Str(<<Unquote(toks[j])>>), next |-> j + 1]
  ELSE IF toks[j] \in Digits THEN
    [ok |-> TRUE, val |-> Num(toks[j]), next |-> j + 1]
  ELSE IF toks[j] = "[" THEN ParseElems(toks, j + 1, <<>>, "first")
  ELSE ParseFail

\* [ok, val]: ok = FALSE is the SyntaxError JSON.parse throws.
JSONParse(s) ==
  LET r == ParseValue(s.v, 1) IN
  IF r.ok /\ SkipWs(s.v, r.next) > Len(s.v)
  THEN [ok |-> TRUE, val |-> r.val]
  ELSE [ok |-> FALSE, val |-> Undefined]

StartsWith(s, c) == Len(s.v) > 0 /\ s.v[1] = c

EndsWith(s, c) == Len(s.v) > 0 /\ s.v[Len(s.v)] = c

-----------------------------------------------------------------------------
(* Process environment and request inputs *)

Servers == {"index.js", "part_000"}

\* The environment variables each server file reads.
EnvVars(srv) ==
  IF srv = "index.js" THEN {"N8N_ROUTER_WEBHOOK"}
  ELSE {"N8N_WORKFLOW_IMAGE", "N8N_WORKFLOW_VIDEO"}

\* process.env[name]: the configured URL, or undefined.
ProcessEnv(name) == IF name \in env THEN Str(<<name>>) ELSE Undefined

\* req.body.workflow of a submission.
Workflows == {"IMAGE", "VIDEO", "BOGUS", "constructor"}

\* req.body of a request sent without a JSON body.
NoBody == Undefined

ImageUrlsInputs ==
  { Undefined,
    Arr(<<Str(<<"a">>)>>),
    Arr(<<Str(<<"a">>), Str(<<"b">>)>>),
    Str(<<"[", "\"a\"", ",", "\"b\"", "]">>),
    Str(<<"[", "a", "]">>),
    Str(<<"a">>),
    Str(<<" ", "[", "\"a\"", "]">>),
    Str(<<"5">>) }

FinalPromptInputs == {Undefined, Str(<<>>), Str(<<"p">>)}

ErrorInputs == {Undefined, Str(<<>>), Str(<<"boom">>)}

Body(imageUrls, finalPrompt, error) ==
  [imageUrls |-> imageUrls, finalPrompt |-> finalPrompt, error |-> error]

\* req.body of a callback: every result field alone, every final prompt
\* with a list of locators, every error with and without a result.
CallbackBodies ==
  {Body(u, Undefined, Undefined) : u \in ImageUrlsInputs}
  \cup {Body(Arr(<<Str(<<"a">>)>>), p, Undefined) : p \in FinalPromptInputs}
  \cup {Body(u, Undefined, e) : u \in {Undefined, Arr(<<Str(<<"a">>)>>), Str(<<"[", "a", "]">>)},
                               e \in ErrorInputs}

\* The path parameter of a status poll.
PathIds == JobIds \cup ObjectPrototypeKeys

-----------------------------------------------------------------------------
(* The job table: const jobs = {} *)

\* The assignment merging rec into the record already stored, as
\* Object.assign(jobs[k], rec) would.
PutMerge(tbl, k, rec) ==
  [x \in DOMAIN tbl \cup {k} |->
     IF x # k THEN tbl[x]
     ELSE IF k \notin DOMAIN tbl THEN rec
     ELSE [f \in DOMAIN tbl[k] \cup DOMAIN rec |->
             IF f \in DOMAIN rec THEN rec[f] ELSE tbl[k][f]]]

\* jobs[k] = rec
Put(tbl, k, rec) ==
  [x \in DOMAIN tbl \cup {k} |-> IF x = k THEN rec ELSE tbl[x]]

PendingRecord == [status |-> "pending"]

DispatchFailedRecord ==
  [status |-> "failed", error |-> Str(<<"Failed to start job.">>)]

FailedRecord(error) == [status |-> "failed", error |-> error]

\* The record keeping only the first locator of a list.
CompletedRecordFirstOnly(imageUrls, finalPrompt) ==
  [status |-> "completed",
   result |-> IF imageUrls.t = "array" /\ Len(imageUrls.v) > 1
              THEN Arr(<<imageUrls.v[1]>>) ELSE imageUrls,
   finalPrompt |-> IF Truthy(finalPrompt) THEN finalPrompt
                   ELSE Str(<<"Prompt not provided">>)]

CompletedRecord(imageUrls, finalPrompt) ==
  [status |-> "completed",
   result |-> imageUrls,
   finalPrompt |-> IF Truthy(finalPrompt) THEN finalPrompt
                   ELSE Str(<<"Prompt not provided">>)]

\* The registration left out: the table as it was.
InsertNothing(tbl, jobId) == tbl

\* jobs[jobId] = { status: 'pending' }
InsertPending(tbl, jobId) == Put(tbl, jobId, PendingRecord)

\* JSON.stringify of a record, as res.json sends it: a key whose value is
\* undefined is dropped.
Serialize(job) ==
  IF job.status = "completed" /\ job.result.t = "undefined"
  THEN [status |-> job.status, finalPrompt |-> job.finalPrompt]
  ELSE job

-----------------------------------------------------------------------------
(* POST /api/generate *)

CallbackUrl(jobId) == <<"https://cinegen-api.onrender.com/api/n8n-callback/", jobId>>

\* webhookUrls[workflow] of part_000: an own key gives the environment's
\* value, an inherited key gives what Object.prototype holds.
WebhookUrl(workflow) ==
  IF workflow = "IMAGE" THEN ProcessEnv("N8N_WORKFLOW_IMAGE")
  ELSE IF workflow = "VIDEO" THEN ProcessEnv("N8N_WORKFLOW_VIDEO")
  ELSE IF workflow \in ObjectPrototypeKeys THEN ObjectFunction
  ELSE Undefined

\* The pending promise of axios.post(url, {..., jobId, callbackUrl}).
\* registered: whether jobs held the job id when the call was made.
Outbound(tbl, url, jobId) ==
  [url |-> url, jobId |-> jobId, callbackUrl |-> CallbackUrl(jobId),
   state |-> "pending", registered |-> jobId \in DOMAIN tbl]

\* What the submitter is sent.  registered: whether jobs held the job id
\* when the response was written.
Reply(tbl, jobId, status, body) ==
  [status |-> status, body |-> body, registered |-> jobId \in DOMAIN tbl]

\* res.status(status).json(body) / .send(body)
Response(status, body) == [status |-> status, body |-> body]

GenerateIndex(jobId, hasBody) ==
  LET url == ProcessEnv("N8N_ROUTER_WEBHOOK") IN
  IF ~Truthy(url) THEN
    /\ replies' = Put(replies, jobId,
                      Reply(jobs, jobId, 500, [message |-> "Server configuration error."]))
    /\ UNCHANGED <<jobs, dispatch>>
  ELSE
    LET jobs1 == InsertPending(jobs, jobId) IN
    /\ jobs' = jobs1
    /\ dispatch' = Put(dispatch, jobId, Outbound(jobs1, url, jobId))
    /\ IF hasBody
       THEN replies' = Put(replies, jobId, Reply(jobs1, jobId, 202, [jobId |-> jobId]))
       ELSE \* payload.workflow throws a TypeError inside the try block, which
            \* the catch block answers
            replies' = Put(replies, jobId,
                           Reply(jobs1, jobId, 500,
                                 [message |-> "Failed to start generation job."]))

GeneratePart000(jobId, hasBody, workflow) ==
  IF ~hasBody THEN
    \* destructuring req.body throws before the handler touches anything
    /\ replies' = Put(replies, jobId,
                      Reply(jobs, jobId, 500, [message |-> "Internal Server Error"]))
    /\ UNCHANGED <<jobs, dispatch>>
  ELSE
    LET url == WebhookUrl(workflow) IN
    IF ~Truthy(url) THEN
      /\ replies' = Put(replies, jobId,
                        Reply(jobs, jobId, 400, [message |-> "Invalid workflow specified"]))
      /\ UNCHANGED <<jobs, dispatch>>
    ELSE
      LET jobs1 == InsertPending(jobs, jobId) IN
      /\ jobs' = jobs1
      /\ dispatch' = Put(dispatch, jobId, Outbound(jobs1, url, jobId))
      /\ replies' = Put(replies, jobId, Reply(jobs1, jobId, 202, [jobId |-> jobId]))

\* crypto.randomUUID() returns a value it has not returned before: the
\* handler's n-th run gets UUIDs[n].
Generate(jobId, hasBody, workflow) ==
  /\ Cardinality(DOMAIN replies) < MaxJobIds
  /\ jobId = UUIDs[Cardinality(DOMAIN replies) + 1]
  /\ IF server = "index.js" THEN GenerateIndex(jobId, hasBody)
     ELSE GeneratePart000(jobId, hasBody, workflow)
  /\ lastWrite' = IF jobs' = jobs THEN lastWrite
                  ELSE [x \in DOMAIN lastWrite \ {jobId} |-> lastWrite[x]]
  /\ UNCHANGED <<server, env, received>>

\* The history of terminal writes, with rec noted as the latest for jobId.
Asked(jobId, rec) ==
  [x \in DOMAIN lastWrite \cup {jobId} |-> IF x = jobId THEN rec ELSE lastWrite[x]]

\* The submitter reads the 202 response and learns the job id.
ClientReceive(jobId) ==
  /\ jobId \in DOMAIN replies
  /\ replies[jobId].status = 202
  /\ jobId \notin received
  /\ received' = received \cup {jobId}
  /\ UNCHANGED <<server, env, jobs, replies, dispatch, lastWrite>>

-----------------------------------------------------------------------------
(* The promise of axios.post settles *)

\* The rejection handler writing to the job id generated last instead of its
\* own.
DispatchRejectedLatest(jobId) ==
  /\ jobId \in DOMAIN dispatch
  /\ dispatch[jobId].state = "pending"
  /\ dispatch' = [dispatch EXCEPT ![jobId].state = "rejected"]
  /\ jobs' = Put(jobs, UUIDs[Cardinality(DOMAIN replies)], DispatchFailedRecord)
  /\ lastWrite' = Asked(UUIDs[Cardinality(DOMAIN replies)], DispatchFailedRecord)
  /\ UNCHANGED <<server, env, replies, received>>

\* The rejection handler issuing the call again.
DispatchRejectedRetries(jobId) ==
  /\ jobId \in DOMAIN dispatch
  /\ dispatch[jobId].state \in {"pending", "rejected"}
  /\ dispatch' = [dispatch EXCEPT ![jobId].state =
                    IF dispatch[jobId].state = "pending" THEN "rejected" ELSE "pending"]
  /\ jobs' = Put(jobs, jobId, DispatchFailedRecord)
  /\ lastWrite' = Asked(jobId, DispatchFailedRecord)
  /\ UNCHANGED <<server, env, replies, received>>

\* .catch(err => { jobs[jobId] = { status: 'failed', error: 'Failed to start job.' } })
DispatchRejected(jobId) ==
  /\ jobId \in DOMAIN dispatch
  /\ dispatch[jobId].state = "pending"
  /\ dispatch' = [dispatch EXCEPT ![jobId].state = "rejected"]
  /\ jobs' = Put(jobs, jobId, DispatchFailedRecord)
  /\ lastWrite' = Asked(jobId, DispatchFailedRecord)
  /\ UNCHANGED <<server, env, replies, received>>

\* A fulfilment reaction that marks the job completed.
DispatchFulfilledCompletes(jobId) ==
  /\ jobId \in DOMAIN dispatch
  /\ dispatch[jobId].state = "pending"
  /\ dispatch[jobId].url.t = "string"
  /\ dispatch' = [dispatch EXCEPT ![jobId].state = "fulfilled"]
  /\ jobs' = Put(jobs, jobId, CompletedRecord(Undefined, Undefined))
  /\ UNCHANGED <<server, env, replies, received, lastWrite>>

\* The processor answered 2xx: no reaction is registered for fulfilment.
DispatchFulfilled(jobId) ==
  /\ jobId \in DOMAIN dispatch
  /\ dispatch[jobId].state = "pending"
  /\ dispatch[jobId].url.t = "string"
  /\ dispatch' = [dispatch EXCEPT ![jobId].state = "fulfilled"]
  /\ UNCHANGED <<server, env, jobs, replies, received, lastWrite>>

-----------------------------------------------------------------------------
(* POST /api/n8n-callback/:jobId *)

\* The catch block giving up the string instead of wrapping it.
NormalizeIndexEmptyOnFail(imageUrls) ==
  IF imageUrls.t = "string" THEN
    LET r == JSONParse(imageUrls) IN
    IF r.ok THEN r.val ELSE Arr(<<>>)
  ELSE imageUrls

NormalizeIndex(imageUrls) ==
  IF imageUrls.t = "string" THEN
    LET r == JSONParse(imageUrls) IN
    IF r.ok THEN r.val ELSE Arr(<<imageUrls>>)
  ELSE imageUrls

NormalizePart000(imageUrls) ==
  IF imageUrls.t = "string" /\ StartsWith(imageUrls, "[") /\ EndsWith(imageUrls, "]") THEN
    LET r == JSONParse(imageUrls) IN
    IF r.ok THEN r.val ELSE Arr(<<>>)
  ELSE imageUrls

CallbackRecordIndex(body) ==
  IF Truthy(body.error) THEN FailedRecord(body.error)
  ELSE CompletedRecord(NormalizeIndex(body.imageUrls), body.finalPrompt)

CallbackRecordPart000(body) ==
  CompletedRecord(NormalizePart000(body.imageUrls), body.finalPrompt)

CallbackRecord(body) ==
  IF server = "index.js" THEN CallbackRecordIndex(body) ELSE CallbackRecordPart000(body)

\* What the processor is sent back.
CallbackResponse(body) ==
  IF body = NoBody
  THEN Response(500, [message |-> "Internal Server Error"])
  ELSE Response(200, [text |-> "Callback received."])

\* The handler keeping the first terminal record of a job.
CallbackFirstWins(jobId, body) ==
  /\ IF body = NoBody
     THEN UNCHANGED <<jobs, lastWrite>>
     ELSE /\ jobs' = IF jobId \in DOMAIN jobs /\ jobs[jobId].status # "pending"
                     THEN jobs
                     ELSE Put(jobs, jobId, CallbackRecord(body))
          /\ lastWrite' = Asked(jobId, CallbackRecord(body))
  /\ UNCHANGED <<server, env, replies, dispatch, received>>

Callback(jobId, body) ==
  /\ IF body = NoBody
     THEN \* destructuring req.body throws before the handler touches anything
          UNCHANGED <<jobs, lastWrite>>
     ELSE /\ jobs' = Put(jobs, jobId, CallbackRecord(body))
          /\ lastWrite' = Asked(jobId, CallbackRecord(body))
  /\ UNCHANGED <<server, env, replies, dispatch, received>>

-----------------------------------------------------------------------------
(* GET /api/status/:jobId *)

\* What a poll of jobId is answered in the current state.  An inherited
\* key of jobs yields a function, which is truthy and which JSON.stringify
\* turns into no body at all.
StatusResponse(jobId) ==
  IF jobId \in DOMAIN jobs THEN Response(200, Serialize(jobs[jobId]))
  ELSE IF jobId \in ObjectPrototypeKeys THEN Response(200, [empty |-> TRUE])
  ELSE Response(404, [message |-> "Job not found."])

\* The handler registering an id it does not find.
StatusCreating(jobId) ==
  /\ jobs' = IF jobId \in DOMAIN jobs THEN jobs ELSE Put(jobs, jobId, PendingRecord)
  /\ UNCHANGED <<server, env, replies, dispatch, received, lastWrite>>

\* The handler dropping a terminal record once it has been read.
StatusEvicting(jobId) ==
  /\ jobs' = IF jobId \in DOMAIN jobs /\ jobs[jobId].status # "pending"
             THEN [x \in DOMAIN jobs \ {jobId} |-> jobs[x]]
             ELSE jobs
  /\ UNCHANGED <<server, env, replies, dispatch, received, lastWrite>>

\* The handler writes nothing but its response.
Status(jobId) ==
  /\ StatusResponse(jobId).status \in {200, 404}
  /\ UNCHANGED vars

-----
(* The specification *)

EmptyTable == [x \in {} |-> PendingRecord]

Init ==
  /\ server \in Servers
  /\ env \in SUBSET EnvVars(server)
  /\ jobs = EmptyTable
  /\ replies = [x \in {} |-> Reply(EmptyTable, x, 202, [jobId |-> x])]
  /\ dispatch = [x \in {} |-> Outbound(EmptyTable, Undefined, x)]
  /\ received = {}
  /\ lastWrite = EmptyTable

Next ==
  \/ \E jobId \in JobIds, hasBody \in BOOLEAN, workflow \in Workflows :
       Generate(jobId, hasBody, workflow)
  \/ \E jobId \in JobIds : ClientReceive(jobId)
  \/ \E jobId \in JobIds : DispatchRejected(jobId)
  \/ \E jobId \in JobIds : DispatchFulfilled(jobId)
  \/ \E jobId \in JobIds, body \in CallbackBodies \cup {NoBody} : Callback(jobId, body)
  \/ \E jobId \in PathIds : Status(jobId)

Spec == Init /\ [][Next]_vars

-----------------------------------------------------------------------------
(* Properties *)

\* The job ids submitters were sent in a 202 response.
Returned == {id \in DOMAIN replies : replies[id].status = 202}

Terminal == {"completed", "failed"}

\* C1: the Pending record is in the table when the outbound call is made and
\* when the 202 response is written, so a poll of a job id the client has
\* received finds a record and is never answered 404.
C1_RegisteredBeforeDispatchAndResponse ==
  /\ \A id \in DOMAIN dispatch : dispatch[id].registered
  /\ \A id \in Returned : replies[id].registered
  /\ \A id \in received : id \in DOMAIN jobs /\ StatusResponse(id).status = 200

\* C1 witness: the client holds an id whose dispatch is still in flight, and
\* its poll is answered with the Pending record.
C1_Witness ==
  \E id \in received :
    /\ dispatch[id].state = "pending"
    /\ StatusResponse(id) = Response(200, PendingRecord)

\* C2: once a record is Completed or Failed, no callback on its id changes it.
C2_TerminalIsFinal ==
  [][\A id \in JobIds, body \in CallbackBodies :
       (id \in DOMAIN jobs /\ jobs[id].status \in Terminal /\ Callback(id, body))
         => jobs'[id] = jobs[id]]_vars

\* C3: a callback for an id with no record is acknowledged with 200 and
\* leaves the job table unchanged.
C3_UnknownCallbackCreatesNothing ==
  [][\A id \in JobIds, body \in CallbackBodies :
       (id \notin DOMAIN jobs /\ Callback(id, body))
         => (CallbackResponse(body).status = 200 /\ jobs' = jobs)]_vars

\* C4: a poll of an id that no submission returned is answered 404.
C4_NeverSubmittedIsNotFound ==
  \A id \in JobIds \ Returned : StatusResponse(id).status = 404

\* C5: on a Pending job, a callback with the error field set (to a message)
\* leaves the record Failed with that error, and one without it leaves the
\* record Completed with the normalized result.
C5_CallbackOutcome ==
  [][\A id \in JobIds, body \in CallbackBodies :
       (id \in DOMAIN jobs /\ jobs[id].status = "pending" /\ Callback(id, body))
         => IF Truthy(body.error)
            THEN jobs'[id] = FailedRecord(body.error)
            ELSE /\ jobs'[id].status = "completed"
                 /\ jobs'[id].result =
                      IF server = "index.js" THEN NormalizeIndex(body.imageUrls)
                      ELSE NormalizePart000(body.imageUrls)]_vars

\* A string that is a JSON array literal: it opens with '[', closes with ']'
\* and parses.
IsArrayLiteral(s) ==
  StartsWith(s, "[") /\ EndsWith(s, "]") /\ JSONParse(s).ok

\* The callback bodies whose result field is a string.
StringBodies == {b \in CallbackBodies : b.imageUrls.t = "string"}

\* The step writes a Completed record for id.
WritesCompleted(id) ==
  /\ id \in DOMAIN jobs'
  /\ jobs'[id].status = "completed"
  /\ id \in DOMAIN jobs => jobs'[id] # jobs[id]

\* A callback that delivers its result field as a string and stores a result.
StoresStringResult(id, body) ==
  /\ WritesCompleted(id)
  /\ Callback(id, body)

C7_CompletedHasResult ==
  \A id \in PathIds :
    LET r == StatusResponse(id) IN
    (r.status = 200 /\ "status" \in DOMAIN r.body /\ r.body.status = "completed")
      => ("result" \in DOMAIN r.body /\ r.body.result.t # "undefined")

\* The workflow selector names a processor endpoint.  index.js hands every
\* selector to the one router; part_000 has an endpoint for a selector when
\* its table maps the selector to a configured URL.
SelectorResolves(workflow) ==
  IF server = "index.js" THEN TRUE
  ELSE workflow \in {"IMAGE", "VIDEO"} /\ WebhookUrl(workflow).t = "string"

\* C8: a submission whose workflow selector resolves to no processor endpoint
\* is answered 400 with a message, creates no record and issues no dispatch.
C8_InvalidWorkflowRejected ==
  [][\A id \in JobIds, workflow \in Workflows :
       (~SelectorResolves(workflow) /\ Generate(id, TRUE, workflow))
         => /\ replies'[id].status = 400
            /\ DOMAIN replies'[id].body = {"message"}
            /\ jobs' = jobs
            /\ dispatch' = dispatch]_vars

\* C9: when the outbound call of a job is rejected the record becomes Failed
\* with 'Failed to start job.', the submitter's response was 202 with the job
\* id, and the rejection changes no response.
C9_DispatchFailure ==
  [][\A id \in JobIds :
       DispatchRejected(id)
         => /\ jobs'[id] = DispatchFailedRecord
            /\ replies' = replies
            /\ replies[id].status = 202
            /\ replies[id].body = [jobId |-> id]]_vars

\* C10: a submission that inserted a record or issued a dispatch is answered
\* 202 with the job id, and a submission answered 400 or 500 has left no
\* record and issued no dispatch.
C10_NoErrorAfterRegistration ==
  [][\A id \in JobIds, hasBody \in BOOLEAN, workflow \in Workflows :
       Generate(id, hasBody, workflow)
         => /\ (jobs' # jobs \/ dispatch' # dispatch)
                 => (replies'[id].status = 202 /\ replies'[id].body = [jobId |-> id])
            /\ replies'[id].status \in {400, 500}
                 => (jobs' = jobs /\ dispatch' = dispatch)]_vars

\* C11: a poll changes nothing; polls with no write between them are answered
\* alike; and the answer for an id that has a record is 200 with that record
\* (a key whose value is undefined left out).
C11_StatusIsPureRead ==
  /\ [](\A id \in DOMAIN jobs :
          LET r == StatusResponse(id) IN
          /\ r.status = 200
          /\ DOMAIN r.body \subseteq DOMAIN jobs[id]
          /\ \A f \in DOMAIN r.body : r.body[f] = jobs[id][f]
          /\ \A f \in DOMAIN jobs[id] \ DOMAIN r.body : jobs[id][f] = Undefined)
  /\ [][/\ \A id \in PathIds : Status(id) => vars' = vars
        /\ jobs' = jobs => \A id \in PathIds : StatusResponse(id)' = StatusResponse(id)]_vars

\* C11 witness: one id has a Completed record, which a poll is answered, and
\* another id has none and is answered 404.
C11_Witness ==
  \E id \in JobIds, other \in JobIds :
    /\ id \in DOMAIN jobs
    /\ jobs[id].status = "completed"
    /\ jobs[id].result.t = "array"
    /\ StatusResponse(id) = Response(200, jobs[id])
    /\ StatusResponse(other).status = 404

\* The callback bodies that report success with a list of result locators.
SuccessBodies ==
  {b \in CallbackBodies : b.imageUrls.t = "array" /\ b.error.t = "undefined"}

\* C12: once a submission is answered 202 a poll of its id is answered the
\* Pending record; once a success callback with a list of locators has been
\* handled for a returned id, a poll is answered Completed with exactly that
\* list.
C12_EndToEnd ==
  [][\A id \in JobIds :
       /\ (id \notin DOMAIN replies /\ id \in DOMAIN replies' /\ replies'[id].status = 202)
            => StatusResponse(id)' = Response(200, PendingRecord)
       /\ (id \in Returned /\ WritesCompleted(id))
            => \A body \in SuccessBodies :
                 Callback(id, body)
                   => /\ StatusResponse(id)'.status = 200
                      /\ StatusResponse(id)'.body.status = "completed"
                      /\ StatusResponse(id)'.body.result = body.imageUrls]_vars

\* C12 witness: the client holds an id whose dispatch did not fail and whose
\* poll is answered Completed with the two locators a, b.
C12_Witness ==
  \E id \in received \cap Returned :
    /\ dispatch[id].state # "rejected"
    /\ id \in DOMAIN lastWrite
    /\ jobs[id].status = "completed"
    /\ jobs[id].result.t = "array"
    /\ StatusResponse(id).body.status = "completed"
    /\ StatusResponse(id).body.result = Arr(<<Str(<<"a">>), Str(<<"b">>)>>)

\* C13: the dispatch-failure handler does not overwrite a record that is
\* already Completed or Failed.
C13_DispatchFailureOnlyFromPending ==
  [][\A id \in JobIds :
       (id \in DOMAIN jobs /\ jobs[id].status \in Terminal /\ DispatchRejected(id))
         => jobs'[id] = jobs[id]]_vars

\* C14: a submission whose generated id is already a key of the table is
\* refused, and the existing record is not reset to Pending.
C14_NoOverwriteOnSubmit ==
  [][\A id \in JobIds, hasBody \in BOOLEAN, workflow \in Workflows :
       (id \in DOMAIN jobs /\ Generate(id, hasBody, workflow))
         => (jobs'[id] = jobs[id] /\ replies'[id].status # 202)]_vars

\* C15: a Pending record changes only in a callback addressed to its id or in
\* the rejection of its own dispatch.
C15_PendingLeavesOnlyByCallbackOrDispatchFailure ==
  [][\A id \in DOMAIN jobs :
       (jobs[id].status = "pending" /\ (id \notin DOMAIN jobs' \/ jobs'[id] # jobs[id]))
         => (DispatchRejected(id) \/ \E body \in CallbackBodies : Callback(id, body))]_vars

\* C15 witness: a job whose dispatch was fulfilled is still Pending while
\* another id already holds a terminal record.
C15_Witness ==
  \E id \in DOMAIN dispatch, other \in DOMAIN jobs :
    /\ other # id
    /\ dispatch[id].state = "fulfilled"
    /\ jobs[id].status = "pending"
    /\ jobs[other].status \in Terminal

\* C16: a Pending record has only its status, a Failed record its status and
\* error, a Completed record its status, result and final prompt.
C16_FieldsMatchState ==
  \A id \in DOMAIN jobs :
    DOMAIN jobs[id] =
      IF jobs[id].status = "pending" THEN {"status"}
      ELSE IF jobs[id].status = "failed" THEN {"status", "error"}
      ELSE {"status", "result", "finalPrompt"}

\* C16 witness: a record is Failed by a dispatch failure handled after a
\* callback, next to a Completed one.
C16_Witness ==
  \E id \in DOMAIN lastWrite \cap DOMAIN dispatch, other \in DOMAIN jobs :
    /\ dispatch[id].state = "rejected"
    /\ jobs[id] = DispatchFailedRecord
    /\ jobs[other].status = "completed"

\* C17: a job id that has a record has one in every later state.
C17_RecordsNeverLost ==
  [][\A id \in DOMAIN jobs : id \in DOMAIN jobs']_vars

\* C17 witness: every job id has a terminal record.
C17_Witness ==
  /\ DOMAIN jobs = JobIds
  /\ \A id \in JobIds : jobs[id].status \in Terminal

\* C18: the record of a job id equals the record the most recently processed
\* callback or dispatch failure on that id wrote.
C18_LastWriteWins ==
  \A id \in DOMAIN lastWrite : id \in DOMAIN jobs /\ jobs[id] = lastWrite[id]

\* C18 witness: a callback handled after the dispatch failure of the same job
\* left the record Completed.
C18_Witness ==
  \E id \in DOMAIN lastWrite :
    /\ id \in DOMAIN dispatch
    /\ dispatch[id].state = "rejected"
    /\ lastWrite[id].status = "completed"

\* The step changes the record of id.
Changes(id) ==
  \/ (id \in DOMAIN jobs) # (id \in DOMAIN jobs')
  \/ id \in DOMAIN jobs /\ id \in DOMAIN jobs' /\ jobs'[id] # jobs[id]

\* C19: a callback for a job id, and the dispatch-failure handler of a job,
\* change no record but that job's.
C19_PerJobIsolation ==
  [][\A id \in JobIds :
       (\E other \in JobIds \ {id} : Changes(other))
         => /\ ~DispatchRejected(id)
            /\ \A body \in CallbackBodies : ~Callback(id, body)]_vars

\* C19 witness: one job is Failed by its dispatch failure while the other is
\* still Pending.
C19_Witness ==
  \E id \in DOMAIN dispatch, other \in DOMAIN jobs :
    /\ other # id
    /\ dispatch[id].state = "rejected"
    /\ jobs[id] = DispatchFailedRecord
    /\ jobs[other].status = "pending"

\* C20: every submission answered 202 has issued a dispatch that carries its
\* job id and the callback address of that id; a rejected dispatch is never
\* issued again, and the dispatch-failure write happens only when a pending
\* dispatch is rejected.
C20_OneDispatchNoRetry ==
  /\ [](\A id \in Returned :
          /\ id \in DOMAIN dispatch
          /\ dispatch[id].jobId = id
          /\ dispatch[id].callbackUrl =
               <<"https://cinegen-api.onrender.com/api/n8n-callback/", id>>)
  /\ [][\A id \in DOMAIN dispatch :
          /\ dispatch'[id].jobId = dispatch[id].jobId
          /\ dispatch[id].state # "pending" => dispatch'[id] = dispatch[id]
          /\ DispatchRejected(id) => dispatch[id].state = "pending"]_vars

\* C20 witness: a returned job whose one dispatch was rejected holds the
\* dispatch-failure record.
C20_Witness ==
  \E id \in Returned :
    /\ dispatch[id].state = "rejected"
    /\ jobs[id] = DispatchFailedRecord

====
